---- MODULE Spec2Model ----
(***************************************************************************)
(* A model of the attention refinement backbone                            *)
(* (detectron2/modeling/backbone/CIF_MultiHead.py) and of the training and *)
(* evaluation driver (tools/Iron_water.py).                                *)
(*                                                                         *)
(* Tensors are modelled at two levels.  In Spec a tensor is its shape (at  *)
(* the real widths: d_model = 512, 8 heads of 64) together with a term     *)
(* recording the operations that produced it; an exception is an error     *)
(* value that every later operation passes on, so the first failing        *)
(* operation of a call is the one reported.  In SpecAttn a tensor is its   *)
(* shape and its row-major data, at small widths, with real arithmetic     *)
(* carried out in fixed point.                                             *)
(***************************************************************************)
EXTENDS Integers, Sequences, FiniteSets, TLC

VARIABLES
    \* CIF_Multihead and its collaborators
    bottom_up, feat, self, forwarded, ret,
    \* do_train
    tpc, checkpoint, train_data, max_iter, start_iter, range_next, iteration, tlog,
    \* do_test
    epc, label_list, result_list, correct, ci, cj, ap_label, ap_result, ap_calls,
    \* the attention stack on tensor data
    acfg, ax, aperm, ay

bbVars == <<bottom_up, feat, self, forwarded, ret>>

trainVars == <<tpc, checkpoint, train_data, max_iter, start_iter, range_next,
               iteration, tlog>>

testVars == <<epc, label_list, result_list, correct, ci, cj, ap_label, ap_result,
              ap_calls>>

attnVars == <<acfg, ax, aperm, ay>>

vars == <<bbVars, trainVars, testVars, attnVars>>

(***************************************************************************)
(* Bounds of the model.                                                    *)
(***************************************************************************)
MaxBatch == 2
MaxSide == 2
MaxCheckpoint == 2
MaxIter == 8
MaxData == 3
MaxSamples == 2
MaxLabel == 1
MaxAttnBatch == 2
MaxAttnHeight == 3
MaxInputSeed == 2

(***************************************************************************)
(* MultiHeadAttention.__init__ / PoswiseFeedForwardNet.__init__ defaults.  *)
(***************************************************************************)
d_model == 512
d_k == 64
d_v == 64
n_heads == 8
d_ff == 2048

(***************************************************************************)
(* Values: tensors, errors (raised exceptions), dicts, None.  The val of a *)
(* tensor is a term naming how it was computed; the result of an attention *)
(* or feed-forward block is named by the block and its inputs.             *)
(***************************************************************************)
Term(op, args) == [op |-> op, args |-> args]

Tensor(shape, val) == [kind |-> "tensor", shape |-> shape, val |-> val]

Error(err, at) == [kind |-> "error", err |-> err, at |-> at]

Dict(items) == [kind |-> "dict", items |-> items]

NoneV == [kind |-> "none"]

IsErr(t) == t.kind = "error"

IsTensor(t) == t.kind = "tensor"

RECURSIVE Prod(_)
Prod(s) == IF s = <<>> THEN 1 ELSE Head(s) * Prod(Tail(s))

\* A Python dimension index (0-based, negative from the end) as a 1-based one.
Dim(d, rank) == IF d < 0 THEN rank + d + 1 ELSE d + 1

(***************************************************************************)
(* A Python local: the expression is evaluated once and the name then      *)
(* stands for its value.                                                   *)
(***************************************************************************)
Bind(e, F(_)) == CHOOSE r \in {F(v) : v \in {e}} : TRUE

(***************************************************************************)
(* torch shape semantics of the operations the module uses.                *)
(***************************************************************************)
\* Tensor.view / Tensor.reshape with at most one -1 in the target: the -1 is
\* inferred from the element count, and cannot be when the other sizes
\* multiply to 0.
InferSize(target, numel) ==
    LET known == Prod(SelectSeq(target, LAMBDA n : n # -1))
        infer == \E i \in 1..Len(target) : target[i] = -1
    IN  IF infer
        THEN IF known > 0 /\ numel % known = 0
             THEN [ok |-> TRUE,
                   shape |-> [i \in 1..Len(target) |->
                                IF target[i] = -1 THEN numel \div known
                                                  ELSE target[i]]]
             ELSE [ok |-> FALSE, shape |-> <<>>]
        ELSE [ok |-> known = numel, shape |-> target]

Reshape(at, t0, target) ==
    Bind(t0, LAMBDA t :
        IF IsErr(t) THEN t
        ELSE Bind(InferSize(target, Prod(t.shape)), LAMBDA r :
                IF r.ok THEN Tensor(r.shape, Term("reshape", <<t.val>>))
                        ELSE Error("RuntimeError", at)))

\* Tensor.permute(dims), dims 0-based.
Permute(t0, dims) ==
    Bind(t0, LAMBDA t :
        IF IsErr(t) THEN t
        ELSE Tensor([i \in 1..Len(dims) |-> t.shape[Dim(dims[i], Len(t.shape))]],
                    Term("permute", <<t.val>>)))

\* Tensor.transpose(dim0, dim1).
Transpose(t0, dim0, dim1) ==
    Bind(t0, LAMBDA t :
        IF IsErr(t) THEN t
        ELSE LET rank == Len(t.shape)
                 a == Dim(dim0, rank)
                 b == Dim(dim1, rank)
             IN  Tensor([i \in 1..rank |->
                            IF i = a THEN t.shape[b]
                            ELSE IF i = b THEN t.shape[a] ELSE t.shape[i]],
                        Term("transpose", <<t.val>>)))

\* nn.Linear(d_in, d_out, bias=False) applied to t0.
Linear(at, d_in, d_out, t0) ==
    Bind(t0, LAMBDA t :
        IF IsErr(t) THEN t
        ELSE LET rank == Len(t.shape)
             IN  IF t.shape[rank] # d_in
                 THEN Error("RuntimeError", at)
                 ELSE Tensor([i \in 1..rank |->
                                IF i = rank THEN d_out ELSE t.shape[i]],
                             Term(at, <<t.val>>)))

\* torch.matmul of two tensors of equal rank >= 2 with equal batch dimensions.
Matmul(at, a0, b0) ==
    Bind(a0, LAMBDA a : Bind(b0, LAMBDA b :
        IF IsErr(a) THEN a
        ELSE IF IsErr(b) THEN b
        ELSE LET ra == Len(a.shape)
                 rb == Len(b.shape)
             IN  IF ra # rb
                    \/ SubSeq(a.shape, 1, ra - 2) # SubSeq(b.shape, 1, rb - 2)
                    \/ a.shape[ra] # b.shape[rb - 1]
                 THEN Error("RuntimeError", at)
                 ELSE Tensor(SubSeq(a.shape, 1, ra - 1) \o <<b.shape[rb]>>,
                             Term("matmul", <<a.val, b.val>>))))

\* An elementwise operation (division by a scalar, softmax over one axis, ReLU).
Elementwise(op, t0) ==
    Bind(t0, LAMBDA t :
        IF IsErr(t) THEN t ELSE Tensor(t.shape, Term(op, <<t.val>>)))

\* a + b for tensors of the same shape.
Add(at, a0, b0) ==
    Bind(a0, LAMBDA a : Bind(b0, LAMBDA b :
        IF IsErr(a) THEN a
        ELSE IF IsErr(b) THEN b
        ELSE IF a.shape # b.shape THEN Error("RuntimeError", at)
        ELSE Tensor(a.shape, Term("add", <<a.val, b.val>>))))

\* nn.LayerNorm(width) applied to t0.
LayerNorm(at, width, t0) ==
    Bind(t0, LAMBDA t :
        IF IsErr(t) THEN t
        ELSE IF t.shape[Len(t.shape)] # width THEN Error("RuntimeError", at)
        ELSE Tensor(t.shape, Term(at, <<t.val>>)))

(***************************************************************************)
(* ScaledDotProductAttention.forward: Q, K, V are tensors.                 *)
(***************************************************************************)
ScaledDotProductAttention(at, Q, K, V, dk) ==
    Bind(Elementwise("div_sqrt_d_k",
                     Matmul(at \o ".scores", Q, Transpose(K, -1, -2))),
         LAMBDA scores :
    Bind(Elementwise("softmax", scores), LAMBDA attn :
         Matmul(at \o ".context", attn, V)))

\* MultiHeadAttention.forward with the key projection evaluated before the
\* query projection.
MultiHeadAttention_KeyFirst(name, input_Q, input_K, input_V) ==
    Bind(Linear(name \o ".W_K", d_model, d_k * n_heads, input_K), LAMBDA K :
         IF IsErr(K) THEN K
         ELSE Linear(name \o ".W_Q", d_model, d_k * n_heads, input_Q))

(***************************************************************************)
(* MultiHeadAttention.forward, for the block called `name`, on tensors.    *)
(* The three projections are evaluated in the order Q, K, V, so the first  *)
(* one to fail is the error raised.                                        *)
(***************************************************************************)
MultiHeadAttention(name, input_Q, input_K, input_V) ==
    LET residual == input_Q
        batch_size == input_Q.shape[1]
    IN
    Bind(Transpose(Reshape(name \o ".W_Q.view",
                           Linear(name \o ".W_Q", d_model, d_k * n_heads, input_Q),
                           <<batch_size, -1, n_heads, d_k>>), 1, 2),
         LAMBDA Q : IF IsErr(Q) THEN Q ELSE
    Bind(Transpose(Reshape(name \o ".W_K.view",
                           Linear(name \o ".W_K", d_model, d_k * n_heads, input_K),
                           <<batch_size, -1, n_heads, d_k>>), 1, 2),
         LAMBDA K : IF IsErr(K) THEN K ELSE
    Bind(Transpose(Reshape(name \o ".W_V.view",
                           Linear(name \o ".W_V", d_model, d_v * n_heads, input_V),
                           <<batch_size, -1, n_heads, d_v>>), 1, 2),
         LAMBDA V : IF IsErr(V) THEN V ELSE
    Bind(ScaledDotProductAttention(name \o ".attention", Q, K, V, d_k),
         LAMBDA context :
    Bind(Reshape(name \o ".context.reshape", Transpose(context, 1, 2),
                 <<batch_size, -1, n_heads * d_v>>),
         LAMBDA merged :
    Bind(Linear(name \o ".fc", n_heads * d_v, d_model, merged), LAMBDA output :
    Bind(LayerNorm(name \o ".norm", d_model,
                   Add(name \o ".residual", output, residual)),
         LAMBDA normed :
         IF IsErr(normed) THEN normed
         ELSE Tensor(normed.shape,
                     Term(name, <<input_Q.val, input_K.val, input_V.val>>)))))))))

(***************************************************************************)
(* PoswiseFeedForwardNet.forward, for the block called `name`.             *)
(***************************************************************************)
PoswiseFeedForwardNet(name, inputs) ==
    LET residual == inputs
    IN
    Bind(Elementwise("relu", Linear(name \o ".fc.0", d_model, d_ff, inputs)),
         LAMBDA hidden :
    Bind(Linear(name \o ".fc.2", d_ff, d_model, hidden), LAMBDA output :
    Bind(LayerNorm(name \o ".norm", d_model,
                   Add(name \o ".residual", output, residual)),
         LAMBDA normed :
         IF IsErr(normed) THEN normed
         ELSE Tensor(normed.shape, Term(name, <<inputs.val>>)))))

\* One entry of the record of sub-module calls a forward made.
Call(callee, q, k, v, result) ==
    [callee |-> callee, Q |-> q, K |-> k, V |-> v, ret |-> result]

\* Multi_Heads.forward with line 88 (x = self.Feed_forward(x)) not commented
\* out.
Multi_Heads_forward_FeedForward(x0) ==
    Bind(x0, LAMBDA x :
    Bind(Permute(Reshape("Multi_Heads.reshape", x,
                         <<x.shape[1], x.shape[2], x.shape[3] * x.shape[4]>>),
                 <<0, 2, 1>>),
         LAMBDA x2 :
    Bind(MultiHeadAttention("multi_head1", x2, x2, x2), LAMBDA x3 :
         IF IsErr(x3)
         THEN [out |-> x3, calls |-> <<Call("multi_head1", x2, x2, x2, x3)>>] ELSE
    Bind(MultiHeadAttention("multi_head2", x3, x3, x3), LAMBDA x4 :
    Bind(PoswiseFeedForwardNet("Feed_forward", x4), LAMBDA x5 :
         [out |-> Reshape("Multi_Heads.reshape_back", Permute(x5, <<0, 2, 1>>),
                          x.shape),
          calls |-> <<Call("multi_head1", x2, x2, x2, x3),
                      Call("multi_head2", x3, x3, x3, x4),
                      Call("Feed_forward", x4, x4, x4, x5)>>])))))

\* Multi_Heads.forward without the final reshape to the recorded x_shape.
Multi_Heads_forward_NoReshapeBack(x0) ==
    Bind(x0, LAMBDA x :
    Bind(Permute(Reshape("Multi_Heads.reshape", x,
                         <<x.shape[1], x.shape[2], x.shape[3] * x.shape[4]>>),
                 <<0, 2, 1>>),
         LAMBDA x2 :
    Bind(MultiHeadAttention("multi_head1", x2, x2, x2), LAMBDA x3 :
         IF IsErr(x3)
         THEN [out |-> x3, calls |-> <<Call("multi_head1", x2, x2, x2, x3)>>] ELSE
    Bind(MultiHeadAttention("multi_head2", x3, x3, x3), LAMBDA x4 :
         [out |-> Permute(x4, <<0, 2, 1>>),
          calls |-> <<Call("multi_head1", x2, x2, x2, x3),
                      Call("multi_head2", x3, x3, x3, x4)>>]))))

(***************************************************************************)
(* Multi_Heads.forward: the result and the sub-module calls made, in       *)
(* order.  A dict has no attribute `shape`.                                *)
(***************************************************************************)
Multi_Heads_forward(x0) ==
    Bind(x0, LAMBDA x :
    IF ~IsTensor(x)
    THEN [out |-> Error("AttributeError", "Multi_Heads.x.shape"), calls |-> <<>>]
    ELSE
    Bind(x.shape, LAMBDA x_shape :
    Bind(Permute(Reshape("Multi_Heads.reshape", x,
                         <<x_shape[1], x_shape[2], x_shape[3] * x_shape[4]>>),
                 <<0, 2, 1>>),
         LAMBDA x2 : IF IsErr(x2) THEN [out |-> x2, calls |-> <<>>] ELSE
    Bind(MultiHeadAttention("multi_head1", x2, x2, x2),
         LAMBDA x3 :
         IF IsErr(x3)
         THEN [out |-> x3, calls |-> <<Call("multi_head1", x2, x2, x2, x3)>>] ELSE
    Bind(MultiHeadAttention("multi_head2", x3, x3, x3),
         LAMBDA x4 :
         [out |-> Reshape("Multi_Heads.reshape_back", Permute(x4, <<0, 2, 1>>),
                          x_shape),
          calls |-> <<Call("multi_head1", x2, x2, x2, x3),
                      Call("multi_head2", x3, x3, x3, x4)>>])))))

(***************************************************************************)
(* The upstream backbone handed to CIF_Multihead.__init__.  An object is   *)
(* described by whether it is a Backbone instance, the methods it has, the *)
(* ShapeSpecs its output_shape() reports, and the form of what its forward *)
(* returns: a dict of named feature maps, or a bare tensor.                *)
(***************************************************************************)
ShapeSpec(channels, stride) == [channels |-> channels, stride |-> stride]

ShapeSpecs == {ShapeSpec(c, s) : c \in {256, 512}, s \in {16, 32}}

OtherSpec == ShapeSpec(2048, 32)

ShapeMaps ==
    {<<>>} \cup {[n \in {"res5"} |-> OtherSpec]}
    \cup {[n \in {"CIF"} |-> sp] : sp \in ShapeSpecs}
    \cup {[n \in {"CIF", "res5"} |-> IF n = "CIF" THEN sp ELSE OtherSpec] : sp \in ShapeSpecs}

Forms == {"tensor", "dict_cif", "dict_other", "dict_both"}

Methods == {"output_shape", "forward"}

UpstreamObjects ==
    {[isBackbone |-> TRUE, methods |-> Methods, shapes |-> m, returns |-> f] :
        m \in ShapeMaps, f \in Forms}
    \cup {[isBackbone |-> FALSE, methods |-> ms, shapes |-> m, returns |-> "dict_cif"] :
            ms \in SUBSET Methods,
            m \in {mm \in ShapeMaps : mm = <<>> \/ "CIF" \in DOMAIN mm}}

\* The feature maps an upstream backbone may compute: 4-dimensional tensors.
FeatureMaps ==
    {Tensor(<<b, c, h, w>>, Term("feature_map", <<>>)) :
        b \in 0..MaxBatch, c \in {256, 512}, h \in 0..MaxSide, w \in 0..MaxSide}

\* What bottom_up(x) returns when the feature map it computes is fm.
UpstreamForward(up, fm) ==
    CASE up.returns = "tensor" -> fm
      [] up.returns = "dict_cif" -> Dict([n \in {"CIF"} |-> fm])
      [] up.returns = "dict_other" -> Dict([n \in {"res5"} |-> fm])
      [] OTHER -> Dict([n \in {"CIF", "res5"} |-> fm])

(***************************************************************************)
(* CIF_Multihead                                                           *)
(***************************************************************************)
NotConstructed == [state |-> "none", err |-> "", strides |-> 0, in_channels |-> 0]

\* CIF_Multihead.__init__ without the isinstance assertion of line 110.
CIF_Multihead_init_NoAssert(up) ==
    IF "output_shape" \notin up.methods
    THEN [NotConstructed EXCEPT !.state = "failed", !.err = "AttributeError"]
    ELSE IF "CIF" \notin DOMAIN up.shapes
    THEN [NotConstructed EXCEPT !.state = "failed", !.err = "KeyError"]
    ELSE [state |-> "constructed", err |-> "",
          strides |-> up.shapes["CIF"].stride,
          in_channels |-> up.shapes["CIF"].channels]

\* CIF_Multihead.__init__(bottom_up): the instance, or the exception raised.
CIF_Multihead_init(up) ==
    IF ~up.isBackbone
    THEN [NotConstructed EXCEPT !.state = "failed", !.err = "AssertionError"]
    ELSE IF "output_shape" \notin up.methods
    THEN [NotConstructed EXCEPT !.state = "failed", !.err = "AttributeError"]
    ELSE IF "CIF" \notin DOMAIN up.shapes
    THEN [NotConstructed EXCEPT !.state = "failed", !.err = "KeyError"]
    ELSE [state |-> "constructed", err |-> "",
          strides |-> up.shapes["CIF"].stride,
          in_channels |-> up.shapes["CIF"].channels]

\* CIF_Multihead.forward(x), with up_out the value self.features1(x) returns.
CIF_Multihead_forward(up_out) ==
    LET r == Multi_Heads_forward(up_out)
    IN  [value |-> IF IsErr(r.out) THEN r.out
                   ELSE Dict([n \in {"CIF_MultiHead"} |-> r.out]),
         calls |-> r.calls]

\* CIF_Multihead.output_shape() with the two ShapeSpec arguments exchanged.
output_shape_Swapped(s) ==
    Dict([n \in {"CIF_MultiHead"} |-> ShapeSpec(s.strides, s.in_channels)])

\* CIF_Multihead.output_shape()
output_shape(s) ==
    Dict([n \in {"CIF_MultiHead"} |-> ShapeSpec(s.in_channels, s.strides)])

NoCall == [op |-> "none", arg |-> NoneV, value |-> NoneV, calls |-> <<>>]

\* The state of a part of the program that is not running.
BackboneIdle ==
    /\ bottom_up = [isBackbone |-> TRUE, methods |-> Methods, shapes |-> <<>>,
                    returns |-> "tensor"]
    /\ feat = Tensor(<<0, 0, 0, 0>>, Term("feature_map", <<>>))
    /\ self = NotConstructed
    /\ forwarded = FALSE
    /\ ret = NoCall

TrainIdle ==
    /\ tpc = "idle"
    /\ checkpoint = <<>>
    /\ train_data = 0
    /\ max_iter = 0
    /\ start_iter = 0
    /\ range_next = 0
    /\ iteration = -1
    /\ tlog = <<>>

AttnIdle ==
    /\ acfg = <<>>
    /\ ax = <<>>
    /\ aperm = <<>>
    /\ ay = <<>>

TestIdle ==
    /\ epc = "idle"
    /\ label_list = <<>>
    /\ result_list = <<>>
    /\ correct = 0
    /\ ci = 0
    /\ cj = 0
    /\ ap_label = <<>>
    /\ ap_result = <<>>
    /\ ap_calls = <<>>

Init ==
    /\ bottom_up \in UpstreamObjects
    /\ feat \in FeatureMaps
    /\ self = NotConstructed
    /\ forwarded = FALSE
    /\ ret = NoCall
    /\ TrainIdle
    /\ TestIdle
    /\ AttnIdle

\* CIF_Multihead(bottom_up)
Construct ==
    /\ self.state = "none"
    /\ self' = CIF_Multihead_init(bottom_up)
    /\ UNCHANGED <<bottom_up, feat, forwarded, ret, trainVars, testVars, attnVars>>

\* model.backbone(x) on the constructed instance
Forward ==
    /\ self.state = "constructed"
    /\ LET up_out == UpstreamForward(bottom_up, feat)
           r == CIF_Multihead_forward(up_out)
       IN  ret' = [op |-> "forward", arg |-> up_out, value |-> r.value, calls |-> r.calls]
    /\ forwarded' = TRUE
    /\ UNCHANGED <<bottom_up, feat, self, trainVars, testVars, attnVars>>

\* model.backbone.output_shape()
OutputShape ==
    /\ self.state = "constructed"
    /\ ret' = [op |-> "output_shape", arg |-> NoneV, value |-> output_shape(self),
               calls |-> <<>>]
    /\ UNCHANGED <<bottom_up, feat, self, forwarded, trainVars, testVars, attnVars>>

\* Multi_Heads()(feat): the stack applied to a feature map directly
StackForward ==
    /\ LET r == Multi_Heads_forward(feat)
       IN  ret' = [op |-> "stack", arg |-> feat, value |-> r.out, calls |-> r.calls]
    /\ UNCHANGED <<bottom_up, feat, self, forwarded, trainVars, testVars, attnVars>>

Next == Construct \/ Forward \/ OutputShape \/ StackForward

Spec == Init /\ [][Next]_vars

(***************************************************************************)
(* do_train (tools/Iron_water.py).  train_data is the number of batches    *)
(* the loader still yields, or Infinite for the endless training loader.   *)
(* tlog records the calls made on the model, the optimizer, the scheduler, *)
(* the writers and the periodic checkpointer, each with the iteration.     *)
(***************************************************************************)
Infinite == -1

\* checkpointer.resume_or_load(...).get("iteration", -1) + 1
StartIter(ckpt) ==
    (IF "iteration" \in DOMAIN ckpt THEN ckpt["iteration"] ELSE -1) + 1

\* The statement after each statement of the loop body, sched_step and
\* ckpt_step exchanged.
AfterStep_CheckpointFirst(pc) ==
    CASE pc = "forward" -> "zero_grad"
      [] pc = "zero_grad" -> "backward"
      [] pc = "backward" -> "opt_step"
      [] pc = "opt_step" -> "ckpt_step"
      [] pc = "ckpt_step" -> "sched_step"
      [] pc = "sched_step" -> "report"
      [] pc = "report" -> "zip"

\* The statement after each statement of the loop body.
AfterStep(pc) ==
    CASE pc = "forward" -> "zero_grad"
      [] pc = "zero_grad" -> "backward"
      [] pc = "backward" -> "opt_step"
      [] pc = "opt_step" -> "sched_step"
      [] pc = "sched_step" -> "report"
      [] pc = "report" -> "ckpt_step"
      [] pc = "ckpt_step" -> "zip"

\* The condition of line 92.
ShouldWrite(it, start, max) ==
    it - start > 5 /\ ((it + 1) % 20 = 0 \/ it = max - 1)

InitTrain ==
    /\ tpc = "start"
    /\ checkpoint \in {<<>>} \cup {[k \in {"iteration"} |-> n] : n \in 0..MaxCheckpoint}
    /\ train_data \in {Infinite} \cup 0..MaxData
    /\ max_iter \in 0..MaxIter
    /\ start_iter = 0
    /\ range_next = 0
    /\ iteration = -1
    /\ tlog = <<>>
    /\ BackboneIdle
    /\ TestIdle
    /\ AttnIdle

\* lines 66-79: everything before the loop
TrainSetup ==
    /\ tpc = "start"
    /\ start_iter' = StartIter(checkpoint)
    /\ range_next' = StartIter(checkpoint)
    /\ tpc' = "zip"
    /\ UNCHANGED <<checkpoint, train_data, max_iter, iteration, tlog, bbVars, testVars, attnVars>>

\* line 80: zip takes the next batch first and the next range value second,
\* and stops when either is exhausted.
ZipNext ==
    /\ tpc = "zip"
    /\ IF train_data = 0
       THEN /\ tpc' = "done"
            /\ UNCHANGED <<train_data, range_next, iteration>>
       ELSE /\ train_data' = IF train_data = Infinite THEN Infinite ELSE train_data - 1
            /\ IF range_next < max_iter
               THEN /\ iteration' = range_next
                    /\ range_next' = range_next + 1
                    /\ tpc' = "forward"
               ELSE /\ tpc' = "done"
                    /\ UNCHANGED <<range_next, iteration>>
    /\ UNCHANGED <<checkpoint, max_iter, start_iter, tlog, bbVars, testVars, attnVars>>

\* lines 81-89 and 97: one call of the loop body
BodyStep ==
    /\ tpc \in {"forward", "zero_grad", "backward", "opt_step", "sched_step", "ckpt_step"}
    /\ tlog' = Append(tlog, <<tpc, iteration>>)
    /\ tpc' = AfterStep(tpc)
    /\ UNCHANGED <<checkpoint, train_data, max_iter, start_iter, range_next, iteration,
                   bbVars, testVars, attnVars>>

\* lines 91-95: the periodic report
Report ==
    /\ tpc = "report"
    /\ tlog' = IF ShouldWrite(iteration, start_iter, max_iter)
               THEN Append(tlog, <<"write", iteration>>)
               ELSE tlog
    /\ tpc' = AfterStep(tpc)
    /\ UNCHANGED <<checkpoint, train_data, max_iter, start_iter, range_next, iteration,
                   bbVars, testVars, attnVars>>

NextTrain == TrainSetup \/ ZipNext \/ BodyStep \/ Report

\* do_train runs to completion: no step of it waits for anything.
SpecTrain == InitTrain /\ [][NextTrain]_vars /\ WF_vars(NextTrain)

(***************************************************************************)
(* do_test (tools/Iron_water.py).  label_list and result_list are the      *)
(* lists lines 26-32 build, one entry per test sample.  ap_calls records   *)
(* the arguments of each average_precision_score call.                     *)
(***************************************************************************)
NumClasses == 10

RECURSIVE SeqsOfLen(_, _)
SeqsOfLen(S, n) ==
    IF n = 0 THEN {<<>>}
    ELSE {Append(q, e) : q \in SeqsOfLen(S, n - 1), e \in S}

Indicator(b) == IF b THEN 1 ELSE 0

InitTest ==
    /\ epc = "start"
    /\ \E n \in 0..MaxSamples :
         /\ label_list \in SeqsOfLen(0..MaxLabel, n)
         /\ result_list \in SeqsOfLen(0..MaxLabel, n)
    /\ correct = 0
    /\ ci = 0
    /\ cj = 0
    /\ ap_label = <<>>
    /\ ap_result = <<>>
    /\ ap_calls = <<>>
    /\ BackboneIdle
    /\ TrainIdle
    /\ AttnIdle

\* lines 33-46: accuracy (a division by the number of samples), the F1
\* scores, and the three empty lists
Accuracy ==
    /\ epc = "start"
    /\ correct' = Cardinality({i \in 1..Len(label_list) : result_list[i] = label_list[i]})
    /\ epc' = IF Len(label_list) = 0 THEN "ZeroDivisionError" ELSE "classes"
    /\ UNCHANGED <<label_list, result_list, ci, cj, ap_label, ap_result, ap_calls,
                   bbVars, trainVars, attnVars>>

\* line 47: the next class, or line 59 after the last
NextClass ==
    /\ epc = "classes"
    /\ IF ci < NumClasses
       THEN epc' = "samples" /\ cj' = 0
       ELSE epc' = "done" /\ UNCHANGED cj
    /\ UNCHANGED <<label_list, result_list, correct, ci, ap_label, ap_result, ap_calls,
                   bbVars, trainVars, attnVars>>

\* lines 48-56: the next sample's two indicators are appended
NextSample ==
    /\ epc = "samples"
    /\ cj < Len(label_list)
    /\ ap_label' = Append(ap_label, Indicator(label_list[cj + 1] = ci))
    /\ ap_result' = Append(ap_result, Indicator(result_list[cj + 1] = ci))
    /\ cj' = cj + 1
    /\ UNCHANGED <<epc, label_list, result_list, correct, ci, ap_calls, bbVars, trainVars, attnVars>>

\* lines 57-58: average_precision_score(ap_label, ap_result) for class ci
Score ==
    /\ epc = "samples"
    /\ cj = Len(label_list)
    /\ ap_calls' = Append(ap_calls, [class |-> ci, y_true |-> ap_label,
                                     y_score |-> ap_result])
    /\ ci' = ci + 1
    /\ epc' = "classes"
    /\ UNCHANGED <<label_list, result_list, correct, cj, ap_label, ap_result,
                   bbVars, trainVars, attnVars>>

NextTest == Accuracy \/ NextClass \/ NextSample \/ Score

SpecTest == InitTest /\ [][NextTest]_vars

(***************************************************************************)
(* The attention stack on tensor data (SpecAttn).  A tensor is its shape   *)
(* and its elements in row-major order.  The blocks are those of           *)
(* CIF_MultiHead.py built with small widths (MultiHeadAttention takes      *)
(* d_model, d_k, d_v and n_heads as arguments) and with integer weights.   *)
(* Real arithmetic is carried out on integers: attention weights and       *)
(* normalised values are fixed-point numbers in units of 1/16, division    *)
(* rounds down, and exp is replaced by a power of 2 that is cut off below. *)
(***************************************************************************)
Values(shape, data) == [shape |-> shape, data |-> data]

RECURSIVE Sum(_, _)
Sum(q, n) == IF n = 0 THEN 0 ELSE q[n] + Sum(q, n - 1)

RECURSIVE Newton(_, _)
Newton(n, r) == IF r <= n \div r THEN r ELSE Newton(n, (r + n \div r) \div 2)

\* The integer part of the square root of n >= 0.
ISqrt(n) == IF n = 0 THEN 0 ELSE Newton(n, n)

RECURSIVE Pow2(_)
Pow2(n) == IF n = 0 THEN 1 ELSE 2 * Pow2(n - 1)

RECURSIVE Max(_, _)
Max(q, n) == IF n = 1 THEN q[1] ELSE IF q[n] > Max(q, n - 1) THEN q[n] ELSE Max(q, n - 1)

\* exp(x) for x <= 0, as a positive nondecreasing integer function: 256 at 0,
\* halved every 8 below it, and never less than 1.
Exp(x) == IF x <= -64 THEN 1 ELSE Pow2(8 + (x \div 8))

\* Row-major strides, and the 0-based multi-index of the 0-based offset k.
Strides(shape) == [d \in 1..Len(shape) |-> Prod(SubSeq(shape, d + 1, Len(shape)))]

Unravel(k, shape) ==
    LET st == Strides(shape)
    IN  [d \in 1..Len(shape) |-> (k \div st[d]) % shape[d]]

Ravel(idx, shape) ==
    LET st == Strides(shape)
    IN  Sum([d \in 1..Len(shape) |-> idx[d] * st[d]], Len(shape))

\* Tensor.reshape / Tensor.view of a tensor held in row-major order.
reshape(t0, target) ==
    Bind(t0, LAMBDA t : Values(InferSize(target, Prod(t.shape)).shape, t.data))

\* Tensor.permute(dims), dims 0-based: result[i_1, ..] = t[j_1, ..] with
\* j_(dims[k]) = i_k.
permute(t0, dims) ==
    Bind(t0, LAMBDA t :
    Bind([i \in 1..Len(dims) |-> t.shape[dims[i] + 1]], LAMBDA ns :
        Values(ns,
               [k \in 1..Prod(ns) |->
                   LET ni == Unravel(k - 1, ns)
                       oi == [d \in 1..Len(dims) |->
                                ni[CHOOSE i \in 1..Len(dims) : dims[i] + 1 = d]]
                   IN  t.data[Ravel(oi, t.shape) + 1]])))

\* Tensor.transpose(dim0, dim1), dims 0-based and possibly negative.
transpose(t0, dim0, dim1) ==
    Bind(t0, LAMBDA t :
        LET rank == Len(t.shape)
            a == Dim(dim0, rank)
            b == Dim(dim1, rank)
        IN  permute(t, [i \in 1..rank |->
                          IF i = a THEN b - 1 ELSE IF i = b THEN a - 1 ELSE i - 1]))

\* The learned parameters: entry (o, i) of the weight matrix `which` (1: W_Q,
\* 2: W_K, 3: W_V, 4: fc) of attention block `block`, and the scale and shift
\* of its LayerNorm.
Weight(cfg, block, which, o, i) ==
    ((3 * o + 2 * i * i + 7 * block + which * i + cfg.seed * o * i) % 5) - 2

Gamma(cfg, block, i) == 1 + ((block + i + cfg.seed) % 2)

Beta(cfg, block, i) == ((block + 2 * i) % 3) - 1

\* nn.Linear(d_in, d_out, bias=False): y[.., o] = sum_i x[.., i] * W[o][i].
linear(cfg, block, which, d_in, d_out, t0) ==
    Bind(t0, LAMBDA t :
        Values([d \in 1..Len(t.shape) |->
                    IF d = Len(t.shape) THEN d_out ELSE t.shape[d]],
               [k \in 1..((Prod(t.shape) \div d_in) * d_out) |->
                   LET row == (k - 1) \div d_out
                       o == ((k - 1) % d_out) + 1
                   IN  Sum([i \in 1..d_in |->
                               t.data[row * d_in + i] * Weight(cfg, block, which, o, i)],
                           d_in)]))

\* torch.matmul of (.., M, K) and (.., K, N) with equal leading dimensions.
matmul(a0, b0) ==
    Bind(a0, LAMBDA a : Bind(b0, LAMBDA b :
        LET ra == Len(a.shape)
            M == a.shape[ra - 1]
            K == a.shape[ra]
            N == b.shape[ra]
            shape == SubSeq(a.shape, 1, ra - 1) \o <<N>>
        IN  Values(shape,
                   [k \in 1..Prod(shape) |->
                       LET batch == (k - 1) \div (M * N)
                           m == ((k - 1) \div N) % M
                           n == (k - 1) % N
                       IN  Sum([j \in 1..K |->
                                   a.data[batch * M * K + m * K + j]
                                   * b.data[batch * K * N + (j - 1) * N + n + 1]],
                               K)])))

\* scores / np.sqrt(d_k)
div_sqrt(t0, dk) ==
    Bind(t0, LAMBDA t :
        Values(t.shape, [k \in 1..Len(t.data) |->
                            (16 * t.data[k]) \div ISqrt(16 * 16 * dk)]))

\* nn.Softmax(dim=-1): each row of the last axis becomes weights, in units of
\* 1/16, proportional to exp(x - max of the row).
softmax(t0) ==
    Bind(t0, LAMBDA t :
        LET n == t.shape[Len(t.shape)]
        IN  Values(t.shape,
                   [k \in 1..Len(t.data) |->
                       LET first == ((k - 1) \div n) * n
                           row == [j \in 1..n |-> t.data[first + j]]
                           top == Max(row, n)
                       IN  (16 * Exp(t.data[k] - top))
                           \div Sum([j \in 1..n |-> Exp(row[j] - top)], n)]))

\* The product with fixed-point weights, back in units of 1.
rescale(t0) ==
    Bind(t0, LAMBDA t :
        Values(t.shape, [k \in 1..Len(t.data) |-> t.data[k] \div 16]))

\* a + b, elementwise
add(a0, b0) ==
    Bind(a0, LAMBDA a : Bind(b0, LAMBDA b :
        Values(a.shape, [k \in 1..Len(a.data) |-> a.data[k] + b.data[k]])))

\* nn.LayerNorm(n) over the last axis: (x - mean) / sqrt(var + eps), scaled and
\* shifted per channel; the result is in units of 1/16.
layer_norm(cfg, block, t0) ==
    Bind(t0, LAMBDA t :
        LET n == t.shape[Len(t.shape)]
        IN  Values(t.shape,
                   [k \in 1..Len(t.data) |->
                       LET first == ((k - 1) \div n) * n
                           i == ((k - 1) % n) + 1
                           mean == Sum([j \in 1..n |-> t.data[first + j]], n) \div n
                           var == Sum([j \in 1..n |->
                                         (t.data[first + j] - mean)
                                         * (t.data[first + j] - mean)], n) \div n
                       IN  ((16 * (t.data[k] - mean)) \div (ISqrt(var) + 1))
                           * Gamma(cfg, block, i) + Beta(cfg, block, i)]))

\* ScaledDotProductAttention.forward on data
ScaledDotProductAttention_data(Q, K, V, dk) ==
    Bind(div_sqrt(matmul(Q, transpose(K, -1, -2)), dk), LAMBDA scores :
    Bind(softmax(scores), LAMBDA attn :
         rescale(matmul(attn, V))))

\* MultiHeadAttention.forward on data, for block number `block`
MultiHeadAttention_data(cfg, block, input_Q, input_K, input_V) ==
    LET residual == input_Q
        batch_size == input_Q.shape[1]
    IN
    Bind(transpose(reshape(linear(cfg, block, 1, cfg.d_model, cfg.d_k * cfg.n_heads,
                                  input_Q),
                           <<batch_size, -1, cfg.n_heads, cfg.d_k>>), 1, 2),
         LAMBDA Q :
    Bind(transpose(reshape(linear(cfg, block, 2, cfg.d_model, cfg.d_k * cfg.n_heads,
                                  input_K),
                           <<batch_size, -1, cfg.n_heads, cfg.d_k>>), 1, 2),
         LAMBDA K :
    Bind(transpose(reshape(linear(cfg, block, 3, cfg.d_model, cfg.d_v * cfg.n_heads,
                                  input_V),
                           <<batch_size, -1, cfg.n_heads, cfg.d_v>>), 1, 2),
         LAMBDA V :
    Bind(ScaledDotProductAttention_data(Q, K, V, cfg.d_k), LAMBDA context :
    Bind(reshape(transpose(context, 1, 2),
                 <<batch_size, -1, cfg.n_heads * cfg.d_v>>),
         LAMBDA merged :
    Bind(linear(cfg, block, 4, cfg.n_heads * cfg.d_v, cfg.d_model, merged),
         LAMBDA output :
         layer_norm(cfg, block, add(output, residual))))))))

\* Multi_Heads.forward on data with line 83-84 replaced by a single
\* x.reshape(B, H*W, C).
Multi_Heads_data_ReshapeOnly(cfg, x0) ==
    Bind(x0, LAMBDA x :
    Bind(reshape(x, <<x.shape[1], x.shape[3] * x.shape[4], x.shape[2]>>), LAMBDA x2 :
    Bind(MultiHeadAttention_data(cfg, 1, x2, x2, x2), LAMBDA x3 :
    Bind(MultiHeadAttention_data(cfg, 2, x3, x3, x3), LAMBDA x4 :
         reshape(x4, x.shape)))))

\* Multi_Heads.forward on data
Multi_Heads_data(cfg, x0) ==
    Bind(x0, LAMBDA x :
    Bind(permute(reshape(x, <<x.shape[1], x.shape[2], x.shape[3] * x.shape[4]>>),
                 <<0, 2, 1>>),
         LAMBDA x2 :
    Bind(MultiHeadAttention_data(cfg, 1, x2, x2, x2), LAMBDA x3 :
    Bind(MultiHeadAttention_data(cfg, 2, x3, x3, x3), LAMBDA x4 :
         reshape(permute(x4, <<0, 2, 1>>), x.shape)))))

\* The widths the blocks are built with.
Configs ==
    {[d_model |-> 4, d_k |-> 2, d_v |-> 2, n_heads |-> 2, seed |-> 0],
     [d_model |-> 3, d_k |-> 2, d_v |-> 1, n_heads |-> 2, seed |-> 1]}

\* The elements of the input feature map number `seed` of a shape.
InputData(shape, seed) ==
    [k \in 1..Prod(shape) |-> (k * k * k + (seed + 2) * k * k + seed) % 7]

\* Permutations of 1..n that generate all of them: the exchanges of two
\* neighbours, and the reversal.
TokenPermutations(n) ==
    {[s \in 1..n |-> IF s = a THEN a + 1 ELSE IF s = a + 1 THEN a ELSE s] :
        a \in 1..(n - 1)}
    \cup {[s \in 1..n |-> n + 1 - s]}

\* The token sequence t (B, S, D) with its tokens reordered by p.
PermuteTokens(t, p) ==
    Values(t.shape,
           [k \in 1..Len(t.data) |->
               LET idx == Unravel(k - 1, t.shape)
               IN  t.data[Ravel(<<idx[1], p[idx[2] + 1] - 1, idx[3]>>, t.shape) + 1]])

\* The feature map x (B, C, H, W) with its H*W positions reordered by p.
PermutePositions(x, p) ==
    LET flat == <<x.shape[1], x.shape[2], x.shape[3] * x.shape[4]>>
    IN  Values(x.shape,
               [k \in 1..Len(x.data) |->
                   LET idx == Unravel(k - 1, flat)
                   IN  x.data[Ravel(<<idx[1], idx[2], p[idx[3] + 1] - 1>>, flat) + 1]])

\* The token sequence of a feature map: lines 83-84.
TokensOf(x) ==
    permute(reshape(x, <<x.shape[1], x.shape[2], x.shape[3] * x.shape[4]>>), <<0, 2, 1>>)

InitAttn ==
    /\ acfg \in Configs
    /\ \E b \in 1..MaxAttnBatch, h \in 1..MaxAttnHeight, w \in 1..2, seed \in 0..MaxInputSeed :
         /\ ax = Values(<<b, acfg.d_model, h, w>>,
                        InputData(<<b, acfg.d_model, h, w>>, seed))
         /\ aperm \in TokenPermutations(h * w)
    /\ ay = [op |-> "none"]
    /\ BackboneIdle
    /\ TrainIdle
    /\ TestIdle

\* The stack on the feature map and on the feature map with permuted positions
RunStack ==
    /\ ay.op = "none"
    /\ ay' = [op |-> "stack",
              plain |-> Multi_Heads_data(acfg, ax),
              permuted |-> Multi_Heads_data(acfg, PermutePositions(ax, aperm))]
    /\ UNCHANGED <<acfg, ax, aperm, bbVars, trainVars, testVars>>

\* One attention block on the token sequence and on the permuted sequence
RunBlock ==
    /\ ay.op = "none"
    /\ ay' = [op |-> "block",
              plain |-> MultiHeadAttention_data(acfg, 1, TokensOf(ax), TokensOf(ax),
                                                TokensOf(ax)),
              permuted |->
                  Bind(PermuteTokens(TokensOf(ax), aperm), LAMBDA t :
                       MultiHeadAttention_data(acfg, 1, t, t, t))]
    /\ UNCHANGED <<acfg, ax, aperm, bbVars, trainVars, testVars>>

NextAttn == RunStack \/ RunBlock

SpecAttn == InitAttn /\ [][NextAttn]_vars

(***************************************************************************)
(* Properties of the backbone and of the attention stack (Spec).           *)
(***************************************************************************)
\* The token sequence Multi_Heads.forward derives from the feature map fm.
Tokens(fm) ==
    Tensor(<<fm.shape[1], fm.shape[3] * fm.shape[4], fm.shape[2]>>,
           Term("permute", <<Term("reshape", <<fm.val>>)>>))

\* An upstream object that does not meet the Backbone contract: not a
\* Backbone, a method missing, or no ShapeSpec for "CIF".
Nonconforming(up) ==
    \/ ~up.isBackbone
    \/ ~(Methods \subseteq up.methods)
    \/ "CIF" \notin DOMAIN up.shapes

\* C1: forward takes the entry "CIF" out of the dict the upstream backbone
\* returns, runs the stack on it and returns {"CIF_MultiHead": stack output}.
C1_ForwardRefinesDesignatedEntry ==
    (/\ ret.op = "forward"
     /\ ret.arg.kind = "dict"
     /\ "CIF" \in DOMAIN ret.arg.items
     /\ ret.arg.items["CIF"].shape[1] >= 1
     /\ ret.arg.items["CIF"].shape[2] = d_model)
    => /\ ret.value.kind = "dict"
       /\ DOMAIN ret.value.items = {"CIF_MultiHead"}
       /\ ret.value.items["CIF_MultiHead"] = Multi_Heads_forward(ret.arg.items["CIF"]).out
       /\ IsTensor(ret.value.items["CIF_MultiHead"])

\* C2 as stated: for every feature map (B, C, H, W) with C = d_model the stack
\* returns a tensor of shape (B, C, H, W), and the token sequence is
\* (B, H*W, C).
C2_ShapePreservedForEveryBatch ==
    (ret.op = "stack" /\ ret.arg.shape[2] = d_model)
    => /\ IsTensor(ret.value)
       /\ ret.value.shape = ret.arg.shape
       /\ Len(ret.calls) >= 1
       /\ ret.calls[1].Q.shape
            = <<ret.arg.shape[1], ret.arg.shape[3] * ret.arg.shape[4], ret.arg.shape[2]>>

\* C2 amended: the same for every feature map with batch size B >= 1.
C2_ShapePreserved ==
    (ret.op = "stack" /\ ret.arg.shape[2] = d_model /\ ret.arg.shape[1] >= 1)
    => /\ IsTensor(ret.value)
       /\ ret.value.shape = ret.arg.shape
       /\ Len(ret.calls) >= 1
       /\ ret.calls[1].Q.shape
            = <<ret.arg.shape[1], ret.arg.shape[3] * ret.arg.shape[4], ret.arg.shape[2]>>

C2_Witness ==
    /\ ret.op = "stack"
    /\ ret.arg.shape = <<2, d_model, 1, 2>>
    /\ IsTensor(ret.value)
    /\ ret.calls[1].Q.shape = <<2, 2, d_model>>

\* C3: once constructed, the recorded channel count and stride are those the
\* upstream backbone reports for "CIF", also after forward calls, and
\* output_shape() returns the one entry "CIF_MultiHead" holding them.
C3_MetadataForwarded ==
    self.state = "constructed"
    => /\ self.in_channels = bottom_up.shapes["CIF"].channels
       /\ self.strides = bottom_up.shapes["CIF"].stride
       /\ ret.op = "output_shape"
          => /\ ret.value.kind = "dict"
             /\ DOMAIN ret.value.items = {"CIF_MultiHead"}
             /\ ret.value.items["CIF_MultiHead"]
                  = ShapeSpec(bottom_up.shapes["CIF"].channels,
                              bottom_up.shapes["CIF"].stride)

C3_Witness ==
    /\ self.state = "constructed"
    /\ forwarded
    /\ ret.op = "output_shape"
    /\ ret.value.items["CIF_MultiHead"] = ShapeSpec(256, 16)

\* C4: when the dict the upstream backbone returns has no entry "CIF",
\* forward fails with a missing-key error.
C4_MissingKeyError ==
    (/\ ret.op = "forward"
     /\ ret.arg.kind = "dict"
     /\ "CIF" \notin DOMAIN ret.arg.items)
    => IsErr(ret.value) /\ ret.value.err = "KeyError"

\* C5: a feature map whose channel count is not d_model makes the stack fail
\* with a dimension mismatch at the first projection (W_Q) of the first
\* attention block; no block completes and no tensor is returned.
C5_DimensionMismatch ==
    (/\ ret.op \in {"stack", "forward"}
     /\ IsTensor(ret.arg)
     /\ ret.arg.shape[2] # d_model)
    => /\ ret.value = Error("RuntimeError", "multi_head1.W_Q")
       /\ Len(ret.calls) = 1
       /\ ret.calls[1].callee = "multi_head1"
       /\ IsErr(ret.calls[1].ret)

C5_Witness ==
    /\ ret.op = "stack"
    /\ ret.arg.shape = <<1, 256, 2, 2>>
    /\ ret.value = Error("RuntimeError", "multi_head1.W_Q")

\* C7: an upstream object that does not meet the Backbone contract never
\* yields an instance: construction raises, and no forward or output_shape
\* call is ever made on such an instance.
C7_MalformedUpstreamFailsAtConstruction ==
    Nonconforming(bottom_up)
    => /\ self.state # "constructed"
       /\ self.state = "failed" => self.err \in {"AssertionError", "KeyError"}
       /\ ~forwarded
       /\ ret.op \notin {"forward", "output_shape"}

C7_Witness ==
    /\ self.state = "failed"
    /\ self.err = "AssertionError"
    /\ ~bottom_up.isBackbone
    /\ bottom_up.methods = {"output_shape"}
    /\ "CIF" \in DOMAIN bottom_up.shapes

\* C8: the stack calls multi_head1 then multi_head2, each with query = key =
\* value, the second on the result of the first; Feed_forward is never
\* called; a returned tensor is the second block's result, permuted and
\* reshaped back.
C8_TwoSelfAttentionBlocks ==
    (ret.op \in {"stack", "forward"} /\ IsTensor(ret.arg))
    => /\ Len(ret.calls) <= 2
       /\ \A i \in 1..Len(ret.calls) :
            /\ ret.calls[i].callee = <<"multi_head1", "multi_head2">>[i]
            /\ ret.calls[i].K = ret.calls[i].Q
            /\ ret.calls[i].V = ret.calls[i].Q
       /\ Len(ret.calls) >= 1 => ret.calls[1].Q = Tokens(ret.arg)
       /\ Len(ret.calls) = 2 => ret.calls[2].Q = ret.calls[1].ret
       /\ ret.op = "stack" /\ IsTensor(ret.value)
          => /\ Len(ret.calls) = 2
             /\ ret.value.val
                  = Term("reshape", <<Term("permute", <<ret.calls[2].ret.val>>)>>)
             /\ ret.calls[2].ret.val
                  = Term("multi_head2", <<ret.calls[1].ret.val, ret.calls[1].ret.val,
                                          ret.calls[1].ret.val>>)
             /\ ret.calls[1].ret.val
                  = Term("multi_head1", <<Tokens(ret.arg).val, Tokens(ret.arg).val,
                                          Tokens(ret.arg).val>>)

C8_Witness ==
    /\ ret.op = "stack"
    /\ ret.arg.shape = <<1, d_model, 2, 2>>
    /\ IsTensor(ret.value)
    /\ Len(ret.calls) = 2

(***************************************************************************)
(* Properties of do_train (SpecTrain) and do_test (SpecTest).              *)
(***************************************************************************)
LoopBody == <<"forward", "zero_grad", "backward", "opt_step", "sched_step", "ckpt_step">>

\* The calls of tlog other than the writers'.
Steps == SelectSeq(tlog, LAMBDA e : e[1] # "write")

TrainLoopInv ==
    tpc \notin {"idle", "start"}
    => /\ start_iter = IF checkpoint = <<>> THEN 0 ELSE checkpoint["iteration"] + 1
       /\ \A k \in 1..Len(Steps) :
            /\ Steps[k][1] = LoopBody[((k - 1) % 6) + 1]
            /\ Steps[k][2] = start_iter + ((k - 1) \div 6)
            /\ Steps[k][2] < max_iter
       /\ Len(Steps) <= 6 * (IF max_iter > start_iter THEN max_iter - start_iter ELSE 0)
       /\ tpc = "done" => Len(Steps) % 6 = 0

\* C9: iterations are numbered consecutively from start_iter (the saved
\* iteration + 1, or 0) and stay below max_iter; there are at most
\* max_iter - start_iter of them; each runs forward, zero_grad, backward,
\* optimizer step, scheduler step and last the checkpointer's step, once each;
\* and the loop ends.
C9_TrainLoop == [](TrainLoopInv) /\ <>(tpc = "done")

C9_Witness ==
    /\ tpc = "done"
    /\ start_iter = 1
    /\ max_iter = 8
    /\ Len(Steps) = 42
    /\ Len(tlog) = 43

\* C10: each average_precision_score call is given, for its class, one
\* indicator per test sample: the one-vs-rest lists of that class alone.
C10_PerClassLists ==
    \A k \in 1..Len(ap_calls) :
        /\ Len(ap_calls[k].y_true) = Len(label_list)
        /\ Len(ap_calls[k].y_score) = Len(label_list)
        /\ ap_calls[k].y_true
             = [j \in 1..Len(label_list) |-> Indicator(label_list[j] = ap_calls[k].class)]
        /\ ap_calls[k].y_score
             = [j \in 1..Len(label_list) |-> Indicator(result_list[j] = ap_calls[k].class)]

(***************************************************************************)
(* Properties of the attention stack on data (SpecAttn).                   *)
(***************************************************************************)
\* C6: the stack commutes with every permutation of the spatial positions,
\* and one self-attention block with every permutation of its tokens.
C6_PermutationEquivariant ==
    /\ ay.op = "stack" => ay.permuted = PermutePositions(ay.plain, aperm)
    /\ ay.op = "block" => ay.permuted = PermuteTokens(ay.plain, aperm)

\* A run in which the permutation changes the input and the output.
C6_Witness ==
    /\ ay.op = "stack"
    /\ ax.shape[3] * ax.shape[4] = 4
    /\ PermutePositions(ax, aperm) # ax
    /\ ay.permuted # ay.plain
====
